---------------------------- MODULE Spec2Model ----------------------------
(***************************************************************************)
(* Article collection (2 web scrapper/main.py) and record cleaning         *)
(* (3 Transformacion/newspaper_receipe.py) of the news pipeline.           *)
(*                                                                         *)
(* Python strings are sequences of one-character strings, so that the      *)
(* regular expressions, splits and joins of the code are computed          *)
(* character by character.  Three specifications share the module:         *)
(*   SpecLink     _build_link applied to one (host, link) pair             *)
(*   SpecScraper  _news_scraper: the collection loop, _fetch_article and   *)
(*                _save_articles                                           *)
(*   SpecClean    main of newspaper_receipe.py, one stage per step         *)
(***************************************************************************)
EXTENDS Naturals, Sequences, FiniteSets

VARIABLES
    bl_host, bl_link, bl_ret,                 \* _build_link(host, link) and its result
    links, i, inflight, attempts, articles,   \* _news_scraper
    pc, exc, out_file,                        \* _news_scraper / _save_articles
    raw, cols, df, stage, status, err, saved  \* newspaper_receipe.main

linkVars  == <<bl_host, bl_link, bl_ret>>
scrapVars == <<links, i, inflight, attempts, articles, pc, exc, out_file>>
cleanVars == <<raw, cols, df, stage, status, err, saved>>
vars      == <<linkVars, scrapVars, cleanVars>>

\* Values that stand beside strings (sequences of characters) in the same
\* variable are one-element sequences holding a word, which no string equals.
None    == <<"None">>       \* Python's None
NaN     == <<"NaN">>        \* a missing cell of a pandas frame
Pending == <<"pending">>    \* the call has not returned yet
NoExc   == "no exception"

-----------------------------------------------------------------------------
(* Strings *)

LF == "\n"
CR == "\r"

\* The characters of s from position a to position b (empty when a > b).
Slice(s, a, b) == IF a > b THEN <<>> ELSE SubSeq(s, a, b)

StartsWith(s, p) == Len(s) >= Len(p) /\ SubSeq(s, 1, Len(p)) = p

\* '.' of a Python regular expression without re.DOTALL: any character but a line feed.
Dot(c) == c # LF

\* All of s[a..b] is matched by '.+' : at least one character, none a line feed.
DotPlus(s, a, b) == a <= b /\ \A k \in a..b : Dot(s[k])

\* '$' without re.MULTILINE, reached after consuming e characters: the end of
\* the string, or just before a line feed that is the last character.
AtDollar(s, e) == e = Len(s) \/ (e = Len(s) - 1 /\ s[Len(s)] = LF)

HTTP  == <<"h", "t", "t", "p", ":", "/", "/">>
HTTPS == <<"h", "t", "t", "p", "s", ":", "/", "/">>

\* re.compile(r'^https?://.+/.+$').match(link) is not None, for the scheme prefix p.
WellFormedAfter(link, p) ==
    /\ StartsWith(link, p)
    /\ \E j \in (Len(p) + 2)..Len(link) :
          /\ link[j] = "/"
          /\ DotPlus(link, Len(p) + 1, j - 1)
          /\ \E e \in (j + 1)..Len(link) :
                DotPlus(link, j + 1, e) /\ AtDollar(link, e)

is_well_formed_link(link) == WellFormedAfter(link, HTTP) \/ WellFormedAfter(link, HTTPS)

\* re.compile(r'^/.+$').match(link) is not None.
is_root_path(link) ==
    /\ StartsWith(link, <<"/">>)
    /\ \E e \in 2..Len(link) : DotPlus(link, 2, e) /\ AtDollar(link, e)

\* A resolution that takes any link with a leading '/' for a root path.
build_link_prefix_only(host, link) ==
    IF is_well_formed_link(link) THEN link
    ELSE IF StartsWith(link, <<"/">>) THEN host \o link
    ELSE host \o <<"/">> \o link

_build_link(host, link) ==
    IF is_well_formed_link(link) THEN link
    ELSE IF is_root_path(link) THEN host \o link
    ELSE host \o <<"/">> \o link


-----------------------------------------------------------------------------
(* _build_link on its own: SpecLink *)

MaxTail == 4

X_COM == HTTPS \o <<"x", ".", "c", "o", "m">>
Y_COM_A == HTTPS \o <<"y", ".", "c", "o", "m", "/", "a">>
Hosts == {X_COM, <<"h">>}

SeqsUpTo(S, n) == UNION {[1..k -> S] : k \in 0..n}

\* Links tried: a scheme-like prefix followed by every short tail over '/',
\* a letter and a line feed, and the three links of the specification's examples.
LinkPrefixes == {<<>>, HTTP, HTTPS, <<"h", "t", "t", "p", ":", "/">>, <<"f", "t", "p", ":", "/", "/">>}
LinkTails    == SeqsUpTo({"/", "a", LF}, MaxTail)
ExampleLinks == {Y_COM_A, <<"/", "a", "/", "b">>, <<"a", "/", "b">>}
Links        == {p \o t : p \in LinkPrefixes, t \in LinkTails} \cup ExampleLinks

ScrapIdle ==
    /\ links = <<>> /\ i = 0 /\ inflight = {} /\ attempts = <<>> /\ articles = <<>>
    /\ pc = "idle" /\ exc = NoExc /\ out_file = <<>>

CleanIdle ==
    /\ raw = <<>> /\ cols = {} /\ df = <<>> /\ stage = 0
    /\ status = "idle" /\ err = NoExc /\ saved = <<>>

LinkIdle == bl_host = <<>> /\ bl_link = <<>> /\ bl_ret = Pending

InitLink ==
    /\ bl_host \in Hosts
    /\ bl_link \in Links
    /\ bl_ret = Pending
    /\ ScrapIdle /\ CleanIdle

BuildLink ==
    /\ bl_ret = Pending
    /\ bl_ret' = _build_link(bl_host, bl_link)
    /\ UNCHANGED <<bl_host, bl_link, scrapVars, cleanVars>>

NextLink == BuildLink

SpecLink == InitLink /\ [][NextLink]_vars

-----------------------------------------------------------------------------
(* _news_scraper, _fetch_article, _save_articles: SpecScraper *)

MaxLinks == 2

\* config()['news_sites'][news_site_uid]['url']
SiteHost == X_COM

\* homepage.article_links: an ordered sequence of hrefs; duplicates allowed.
HomepageLinks == {Y_COM_A, <<"/", "a", "/", "b">>, <<"a", LF>>}
LinkLists     == SeqsUpTo(HomepageLinks, MaxLinks)

T1      == <<"T", "1">>
BodyTxt == <<"T", "e", "x", "t", "o">>

\* What news.ArticlePage(news_site_uid, url) does: it raises, or it is a page
\* object with a title and a body (a body of '' or None when the page has none).
FetchErrors == {"HTTPError", "MaxRetryError"}
PageOutcomes ==
    [raises : FetchErrors, title : {<<>>}, body : {None}]
      \cup [raises : {NoExc}, title : {T1, <<>>}, body : {BodyTxt, <<>>, None}]

ArticlePage(url, o) == [url |-> url, title |-> o.title, body |-> o.body]

\* Python truthiness of a str-or-None attribute.
Truthy(v) == v # None /\ v # <<>>

\* The exception classes the except clause of _fetch_article names.
Caught == {"HTTPError", "MaxRetryError"}

\* _fetch_article without the body check.
fetch_article_no_body_check(host, link, o) ==
    IF o.raises # NoExc
    THEN [raised |-> IF o.raises \in Caught THEN NoExc ELSE o.raises, article |-> <<>>]
    ELSE [raised |-> NoExc, article |-> <<ArticlePage(_build_link(host, link), o)>>]

\* _fetch_article whose except clause names HTTPError only.
fetch_article_http_only(host, link, o) ==
    IF o.raises # NoExc
    THEN [raised |-> IF o.raises = "HTTPError" THEN NoExc ELSE o.raises, article |-> <<>>]
    ELSE IF ~Truthy(o.body)
    THEN [raised |-> NoExc, article |-> <<>>]
    ELSE [raised |-> NoExc, article |-> <<ArticlePage(_build_link(host, link), o)>>]

\* The result of _fetch_article: the exception that leaves it (NoExc when it
\* returns) and the returned article, <<>> for None.
_fetch_article(host, link, o) ==
    IF o.raises # NoExc
    THEN [raised |-> IF o.raises \in Caught THEN NoExc ELSE o.raises, article |-> <<>>]
    ELSE IF ~Truthy(o.body)
    THEN [raised |-> NoExc, article |-> <<>>]
    ELSE [raised |-> NoExc, article |-> <<ArticlePage(_build_link(host, link), o)>>]

\* list(filter(lambda property: not property.startswith('_'), dir(articles[0])))
csv_headers == <<"body", "title", "url">>

\* str(getattr(article, prop)) for each header.
CsvRow(a) == <<a.body, a.title, a.url>>

InitScraper ==
    /\ links \in LinkLists
    /\ i = 1
    /\ inflight = {}
    /\ attempts = <<>>
    /\ articles = <<>>
    /\ pc = "loop"
    /\ exc = NoExc
    /\ out_file = <<>>
    /\ LinkIdle /\ CleanIdle

\* The loop reaches its next link and _fetch_article issues the page request.
FetchStart ==
    /\ pc = "loop" /\ i <= Len(links) /\ inflight = {}
    /\ inflight' = {_build_link(SiteHost, links[i])}
    /\ UNCHANGED <<links, i, attempts, articles, pc, exc, out_file, linkVars, cleanVars>>

\* The request ends with outcome o; _fetch_article returns or raises, and the
\* loop body appends the article when it is not None.
FetchReturn ==
    /\ pc = "loop" /\ inflight # {}
    /\ \E o \in PageOutcomes :
         LET r == _fetch_article(SiteHost, links[i], o) IN
         /\ attempts' = Append(attempts, [link |-> links[i], page |-> o, result |-> r])
         /\ inflight' = {}
         /\ IF r.raised # NoExc
            THEN /\ pc' = "raised" /\ exc' = r.raised
                 /\ UNCHANGED <<i, articles>>
            ELSE /\ articles' = articles \o r.article
                 /\ i' = i + 1
                 /\ UNCHANGED <<pc, exc>>
    /\ UNCHANGED <<links, out_file, linkVars, cleanVars>>

\* The for loop is exhausted; _save_articles is called.
LoopEnd ==
    /\ pc = "loop" /\ i > Len(links) /\ inflight = {}
    /\ pc' = "save"
    /\ UNCHANGED <<links, i, inflight, attempts, articles, exc, out_file, linkVars, cleanVars>>

\* _save_articles: articles[0] is read for the headers before the file is opened.
SaveArticles ==
    /\ pc = "save"
    /\ IF articles = <<>>
       THEN /\ pc' = "raised" /\ exc' = "IndexError"
            /\ UNCHANGED out_file
       ELSE /\ out_file' = <<[header |-> csv_headers,
                              rows |-> [k \in 1..Len(articles) |-> CsvRow(articles[k])]]>>
            /\ pc' = "done"
            /\ UNCHANGED exc
    /\ UNCHANGED <<links, i, inflight, attempts, articles, linkVars, cleanVars>>

NextScraper == FetchStart \/ FetchReturn \/ LoopEnd \/ SaveArticles

SpecScraper == InitScraper /\ [][NextScraper]_vars

-----------------------------------------------------------------------------
(* newspaper_receipe.py: strings and cells *)

\* A numeric cell; a missing numeric cell is NaN like any other.
Int(n) == <<"int", n>>

RECURSIVE Split(_, _)
\* s.split(sep) for a one-character separator: the pieces between separators.
Split(s, sep) ==
    IF \A k \in 1..Len(s) : s[k] # sep THEN <<s>>
    ELSE LET p == CHOOSE k \in 1..Len(s) : s[k] = sep /\ \A m \in 1..(k - 1) : s[m] # sep
         IN <<Slice(s, 1, p - 1)>> \o Split(Slice(s, p + 1, Len(s)), sep)

RECURSIVE Join(_, _)
\* sep.join(parts)
Join(parts, sep) ==
    IF parts = <<>> THEN <<>>
    ELSE IF Len(parts) = 1 THEN parts[1]
    ELSE parts[1] \o sep \o Join(Tail(parts), sep)

\* letter.replace(old, new) applied to each letter of list(body), then ''.join.
ReplaceLetters(s, old, new) == [k \in 1..Len(s) |-> IF s[k] = old THEN new ELSE s[k]]

\* str.extract(r'(?P<missing_titles>[^/]+)$'): the leftmost position from which
\* only characters other than '/' run to the end; NaN when there is none.
ExtractMissingTitle(url) ==
    LET starts == {p \in 1..Len(url) : \A k \in p..Len(url) : url[k] # "/"} IN
    IF starts = {} THEN NaN
    ELSE LET p == CHOOSE q \in starts : \A r \in starts : q <= r
         IN SubSeq(url, p, Len(url))

SchemeChars == {"a", "b", "c", "d", "e", "f", "g", "h", "i", "j", "k", "l", "m",
                "n", "o", "p", "q", "r", "s", "t", "u", "v", "w", "x", "y", "z",
                "+", "-", "."}

\* urlparse(url).netloc: after a scheme (the characters before the first ':',
\* when they are scheme characters led by a letter), a leading '//' opens the authority, which
\* runs to the next '/', '?' or '#'.  Without '//' the netloc is ''.
netloc(url) ==
    LET colons == {k \in 1..Len(url) : url[k] = ":"}
        c      == IF colons = {} THEN 0 ELSE CHOOSE k \in colons : \A m \in colons : k <= m
        scheme == /\ c > 1
                  /\ url[1] \notin {"+", "-", "."}
                  /\ \A k \in 1..(c - 1) : url[k] \in SchemeChars
        rest   == IF scheme THEN Slice(url, c + 1, Len(url)) ELSE url
        ends   == {k \in 3..Len(rest) : rest[k] \in {"/", "?", "#"}}
        e      == IF ends = {} THEN Len(rest) + 1 ELSE CHOOSE k \in ends : \A m \in ends : k <= m
    IN IF StartsWith(rest, <<"/", "/">>) THEN Slice(rest, 3, e - 1) ELSE <<>>

\* hashlib.md5(url.encode('ISO-8859-1')).hexdigest(): a digest that depends on
\* the bytes of the url alone and is distinct for distinct urls.
md5_hexdigest(url) == <<"md5">> \o url

UpperCase == <<"A", "B", "C", "D", "E", "F", "G", "H", "I", "J", "K", "L", "M",
               "N", "O", "P", "Q", "R", "S", "T", "U", "V", "W", "X", "Y", "Z">>
LowerCase == <<"a", "b", "c", "d", "e", "f", "g", "h", "i", "j", "k", "l", "m",
               "n", "o", "p", "q", "r", "s", "t", "u", "v", "w", "x", "y", "z">>

\* token.isalpha()
isalpha(t) ==
    /\ t # <<>>
    /\ \A k \in 1..Len(t) : \E m \in 1..Len(LowerCase) : t[k] \in {LowerCase[m], UpperCase[m]}

\* token.lower()
lower(t) ==
    [k \in 1..Len(t) |->
        IF \E m \in 1..Len(UpperCase) : UpperCase[m] = t[k]
        THEN LowerCase[CHOOSE m \in 1..Len(UpperCase) : UpperCase[m] = t[k]]
        ELSE t[k]]

\* stopwords.words('spanish'), the words of it that the texts below can hold.
stop_words == {<<"d", "e">>, <<"l", "a">>, <<"e", "l">>, <<"e", "n">>, <<"y">>}

\* nltk.word_tokenize on a text of words separated by blanks.
word_tokenize(text) == SelectSeq(Split(text, " "), LAMBDA t : t # <<>>)

\* The chain of _token_size_column on the text of one row.
token_size(text) ==
    LET IsWord(t) == isalpha(t) /\ lower(t) \notin stop_words
    IN Len(SelectSeq(word_tokenize(text), IsWord))

-----------------------------------------------------------------------------
(* newspaper_receipe.py: the frame and its stages *)

\* A frame is [cols, rows]: df.columns and the rows in order.  A row maps each
\* column to its cell, "pos" to the row's position in the file read, and,
\* once set_index('uid') has run, "uid" to its index label.
SetCol(r, c, v) == [x \in DOMAIN r \cup {c} |-> IF x = c THEN v ELSE r[x]]

Ok(cs, rows) == [err |-> NoExc, cols |-> cs, rows |-> rows]
Raise(e, f)  == [err |-> e, cols |-> f.cols, rows |-> f.rows]

\* DataFrame.dropna(): the rows without a missing cell in any column.
Complete(cs, r) == \A c \in cs : r[c] # NaN
dropna(cs, rows) == SelectSeq(rows, LAMBDA r : Complete(cs, r))

\* filename.split('_')[0]
_extract_newspaper_uid(filename) == Split(filename, "_")[1]

_add_newspaper_uid_column(f, newspaper_uid) ==
    Ok(f.cols \cup {"newspaper_uid"},
       [n \in 1..Len(f.rows) |-> LET r == f.rows[n] IN SetCol(r, "newspaper_uid", newspaper_uid)])

_extract_host(f) ==
    IF "url" \notin f.cols THEN Raise("KeyError", f)
    ELSE Ok(f.cols \cup {"host"}, [n \in 1..Len(f.rows) |-> LET r == f.rows[n] IN SetCol(r, "host", netloc(r["url"]))])

\* The backfill that keeps the url segment as it is.
add_missing_titles_unsplit(f) ==
    IF "title" \notin f.cols \/ "url" \notin f.cols THEN Raise("KeyError", f)
    ELSE IF \E k \in 1..Len(f.rows) :
                f.rows[k]["title"] = NaN /\ ExtractMissingTitle(f.rows[k]["url"]) = NaN
    THEN Raise("AttributeError", f)
    ELSE Ok(f.cols,
            [n \in 1..Len(f.rows) |-> LET r == f.rows[n] IN
                IF r["title"] = NaN
                THEN SetCol(r, "title", ExtractMissingTitle(r["url"]))
                ELSE r])

\* A missing title whose url has no final segment is a NaN cell, on which
\* title.split('-') raises AttributeError.
_add_missing_titles(f) ==
    IF "title" \notin f.cols \/ "url" \notin f.cols THEN Raise("KeyError", f)
    ELSE IF \E k \in 1..Len(f.rows) :
                f.rows[k]["title"] = NaN /\ ExtractMissingTitle(f.rows[k]["url"]) = NaN
    THEN Raise("AttributeError", f)
    ELSE Ok(f.cols,
            [n \in 1..Len(f.rows) |-> LET r == f.rows[n] IN
                IF r["title"] = NaN
                THEN SetCol(r, "title", Join(Split(ExtractMissingTitle(r["url"]), "-"), <<" ">>))
                ELSE r])

\* df['uid'] = uids; df.set_index('uid'): uid is the index, not a column.
_generate_uids_for_rows(f) ==
    IF "url" \notin f.cols THEN Raise("KeyError", f)
    ELSE Ok(f.cols, [n \in 1..Len(f.rows) |-> LET r == f.rows[n] IN SetCol(r, "uid", md5_hexdigest(r["url"]))])

\* A frame without body column passes unchanged.
remove_new_lines_tolerant(f) ==
    IF "body" \notin f.cols THEN Ok(f.cols, f.rows)
    ELSE IF \E k \in 1..Len(f.rows) : f.rows[k]["body"] = NaN THEN Raise("TypeError", f)
    ELSE Ok(f.cols,
            [n \in 1..Len(f.rows) |-> LET r == f.rows[n] IN
                SetCol(r, "body", ReplaceLetters(ReplaceLetters(r["body"], LF, " "), CR, " "))])

\* list(body) of a NaN cell raises TypeError.
_remove_new_lines_from_body(f) ==
    IF "body" \notin f.cols THEN Raise("KeyError", f)
    ELSE IF \E k \in 1..Len(f.rows) : f.rows[k]["body"] = NaN THEN Raise("TypeError", f)
    ELSE Ok(f.cols,
            [n \in 1..Len(f.rows) |-> LET r == f.rows[n] IN
                SetCol(r, "body", ReplaceLetters(ReplaceLetters(r["body"], LF, " "), CR, " "))])

\* Two rows of a sequence of rows carry the same index label.
DuplicateLabels(rows) ==
    \E a, b \in 1..Len(rows) : a # b /\ rows[a]["uid"] = rows[b]["uid"]

\* df[target] = _token_size_column(df, column_name).  The counts are those of
\* the rows of df.dropna(); the assignment aligns them with df by index label:
\* it raises ValueError when the labels of the counted rows are not those of
\* df and repeat, and leaves NaN where a row of df has no counted row.
\* With no complete row, emptyRaises tells whether the chain over the empty
\* frame raises (it depends on the pandas release).
SetTokenSize(f, column_name, target, emptyRaises) ==
    LET kept == dropna(f.cols, f.rows) IN
    IF column_name \notin f.cols THEN Raise("KeyError", f)
    ELSE IF kept = <<>> /\ emptyRaises THEN Raise("ValueError", f)
    ELSE IF Len(kept) # Len(f.rows) /\ DuplicateLabels(kept) THEN Raise("ValueError", f)
    ELSE Ok(f.cols \cup {target},
            [n \in 1..Len(f.rows) |-> LET r == f.rows[n] IN
                LET same == {k \in 1..Len(kept) : kept[k]["uid"] = r["uid"]} IN
                SetCol(r, target,
                       IF Len(kept) = Len(f.rows) THEN Int(token_size(r[column_name]))
                       ELSE IF same = {} THEN NaN
                       ELSE Int(token_size(kept[CHOOSE k \in same : TRUE][column_name])))])

\* Lines 26 and 27 of main: the title counts, then the body counts.
TokenCounts(f, emptyRaises) ==
    LET t == SetTokenSize(f, "title", "n_tokens_title", emptyRaises) IN
    IF t.err # NoExc THEN t
    ELSE SetTokenSize([cols |-> t.cols, rows |-> t.rows], "body", "n_tokens_body", emptyRaises)

\* drop_duplicates with keep='last'.
remove_duplicate_entries_keep_last(f, column_name) ==
    Ok(f.cols,
       LET Later(k) == \E m \in (k + 1)..Len(f.rows) : f.rows[m][column_name] = f.rows[k][column_name]
           keep == {k \in 1..Len(f.rows) : ~Later(k)}
       IN SelectSeq(f.rows, LAMBDA r : \E k \in keep : f.rows[k]["pos"] = r["pos"]))

\* df.drop_duplicates(subset=column_name, keep='first')
_remove_duplicate_entries(f, column_name) ==
    Ok(f.cols,
       LET Earlier(k) == \E m \in 1..(k - 1) : f.rows[m][column_name] = f.rows[k][column_name]
           keep == {k \in 1..Len(f.rows) : ~Earlier(k)}
       IN SelectSeq(f.rows, LAMBDA r : \E k \in keep : f.rows[k]["pos"] = r["pos"]))

_drop_rows_missing_data(f) == Ok(f.cols, dropna(f.cols, f.rows))

-----------------------------------------------------------------------------
(* newspaper_receipe.main: SpecClean *)

MaxRows == 2

N_COM    == HTTPS \o <<"n", ".", "c", "o", "m">>
U_XYZ    == N_COM \o <<"/", "x", "-", "y", "-", "z">>
U_OTHER  == N_COM \o <<"/", "o", "t", "h", "e", "r">>
U_SLASH  == N_COM \o <<"/">>
U_NOHOST == <<"n", ".", "c", "o", "m", "/", "a", "-", "b">>

X_Y_Z      == <<"x", " ", "y", " ", "z">>
HolaMundo  == <<"H", "o", "l", "a", LF, "M", "u", "n", "d", "o">>

\* The cells read from the file: pd.read_csv gives NaN for an empty field.
Urls   == {U_XYZ, U_OTHER, U_SLASH, U_NOHOST}
Titles == {NaN, T1, X_Y_Z}
Bodies == {NaN, HolaMundo}
Extras == {NaN, <<"e">>}

\* The file has every column of the scraper's output, or lacks one of the
\* three that the stages read.
Required   == {"url", "title", "body"}
AllColumns == Required \cup {"extra"}
ColumnSets == {AllColumns} \cup {AllColumns \ {c} : c \in Required}

RowsOver(cs) ==
    {[c \in cs |-> CASE c = "url" -> u [] c = "title" -> t [] c = "body" -> b [] OTHER -> e] :
        u \in Urls, t \in Titles, b \in Bodies, e \in Extras}

Batches(cs) == UNION {[1..n -> RowsOver(cs)] : n \in 1..MaxRows}

\* _read_data: the rows of the file, each at its position.
_read_data(batch) == [k \in 1..Len(batch) |-> SetCol(batch[k], "pos", k)]

\* The file name given on the command line.
Filename == <<"n", "_", "1", ".", "c", "s", "v">>

Frame == [cols |-> cols, rows |-> df]

InitClean ==
    /\ cols \in ColumnSets
    /\ raw \in Batches(cols)
    /\ df = _read_data(raw)
    /\ stage = 0
    /\ status = "running"
    /\ err = NoExc
    /\ saved = <<>>
    /\ LinkIdle /\ ScrapIdle

\* Stage k of main ends with result r: the frame of the next stage, or the
\* exception that ends the run.
Advance(k, r) ==
    /\ status = "running" /\ stage = k - 1
    /\ IF r.err # NoExc
       THEN /\ status' = "failed" /\ err' = r.err
            /\ UNCHANGED <<cols, df, stage>>
       ELSE /\ cols' = r.cols /\ df' = r.rows /\ stage' = k
            /\ UNCHANGED <<status, err>>
    /\ UNCHANGED <<raw, saved, linkVars, scrapVars>>

TagSite          == Advance(1, _add_newspaper_uid_column(Frame, _extract_newspaper_uid(Filename)))
ExtractHost      == Advance(2, _extract_host(Frame))
AddMissingTitles == Advance(3, _add_missing_titles(Frame))
GenerateUids     == Advance(4, _generate_uids_for_rows(Frame))
RemoveNewLines   == Advance(5, _remove_new_lines_from_body(Frame))
CountTokens      == \E emptyRaises \in BOOLEAN : Advance(6, TokenCounts(Frame, emptyRaises))
RemoveDuplicates == Advance(7, _remove_duplicate_entries(Frame, "title"))
DropMissing      == Advance(8, _drop_rows_missing_data(Frame))

\* _save_data(df, filename), then main returns df.
SaveData ==
    /\ status = "running" /\ stage = 8
    /\ saved' = <<Frame>>
    /\ status' = "done"
    /\ UNCHANGED <<raw, cols, df, stage, err, linkVars, scrapVars>>

NextClean ==
    \/ TagSite \/ ExtractHost \/ AddMissingTitles \/ GenerateUids \/ RemoveNewLines
    \/ CountTokens \/ RemoveDuplicates \/ DropMissing \/ SaveData

SpecClean == InitClean /\ [][NextClean]_vars

-----------------------------------------------------------------------------
(* Properties of _build_link *)

HasLineFeed(s) == \E k \in 1..Len(s) : s[k] = LF

\* An absolute URL: the scheme http or https, '://', a non-empty authority,
\* a '/', and at least one more character.
IsAbsoluteUrl(s) ==
    \E p \in {HTTP, HTTPS} :
        StartsWith(s, p) /\ \E j \in (Len(p) + 2)..(Len(s) - 1) : s[j] = "/"

\* A root-relative path: a '/' followed by at least one character.
IsRootRelative(s) == Len(s) >= 2 /\ s[1] = "/"

Resolved(host, link) ==
    IF IsAbsoluteUrl(link) THEN link
    ELSE IF IsRootRelative(link) THEN host \o link
    ELSE host \o <<"/">> \o link

A_B == <<"a", "/", "b">>

ExamplesHold ==
    /\ (bl_host = X_COM /\ bl_link = Y_COM_A) => bl_ret = Y_COM_A
    /\ (bl_host = X_COM /\ bl_link = <<"/">> \o A_B) => bl_ret = X_COM \o <<"/">> \o A_B
    /\ (bl_host = X_COM /\ bl_link = A_B) => bl_ret = X_COM \o <<"/">> \o A_B

\* C3 as stated: for every host and every link, _build_link returns the link
\* itself when it is an absolute URL, host + link when it is root-relative,
\* and host + '/' + link otherwise.
C3_ResolveEveryLink ==
    bl_ret # Pending => bl_ret = Resolved(bl_host, bl_link) /\ ExamplesHold

\* C3 amended: the same, for every link that holds no line feed; the three
\* examples of the specification resolve as it says.
C3_ResolveLinkWithoutLineFeed ==
    (bl_ret # Pending /\ ~HasLineFeed(bl_link))
        => bl_ret = Resolved(bl_host, bl_link) /\ ExamplesHold

\* A root-relative link without line feed has been resolved against the host.
C3_Witness ==
    /\ bl_ret # Pending
    /\ bl_host = X_COM
    /\ bl_link = <<"/">> \o A_B
    /\ bl_ret = X_COM \o <<"/">> \o A_B

-----------------------------------------------------------------------------
(* Properties of the collection run *)

Returned(a) == a.result.raised = NoExc
GotArticle(a) == a.result.article # <<>>
LoopOver == pc \in {"save", "done", "raised"}

ArticlesOf(as) ==
    LET got == SelectSeq(as, GotArticle) IN
    [k \in 1..Len(got) |-> got[k].result.article[1]]

C7_EmptyRunCompletes ==
    (articles = <<>> /\ pc \in {"done", "raised"})
        => /\ pc = "done" /\ exc = NoExc
           /\ out_file = <<[header |-> csv_headers, rows |-> <<>>]>>

-----------------------------------------------------------------------------
(* Properties of the cleaning pipeline *)

\* The columns of the file read, and the required ones it lacks.
InputCols == IF raw = <<>> THEN {} ELSE DOMAIN raw[1]
Missing   == Required \ InputCols
Cleaning  == status \in {"running", "failed", "done"}

\* The text after the last '/' of a url (the whole url when it has none).
FinalSegment(url) ==
    LET slashes == {k \in 1..Len(url) : url[k] = "/"}
        last    == IF slashes = {} THEN 0 ELSE CHOOSE k \in slashes : \A m \in slashes : m <= k
    IN Slice(url, last + 1, Len(url))

HyphensToSpaces(s) == [k \in 1..Len(s) |-> IF s[k] = "-" THEN " " ELSE s[k]]

\* The title of an input row once missing titles are backfilled.
BackfilledTitle(r) ==
    IF r["title"] # NaN THEN r["title"] ELSE HyphensToSpaces(FinalSegment(r["url"]))

\* C4: the returned dataset has no two rows with the same title; of input rows
\* with the same title (after backfill) none but the first is in it; its rows
\* are input rows in their input order.
C4_FirstOfEachTitleSurvives ==
    status = "done" =>
        /\ \A a, b \in 1..Len(df) : a # b => df[a]["title"] # df[b]["title"]
        /\ \A a, b \in 1..Len(raw) :
              (a < b /\ BackfilledTitle(raw[a]) = BackfilledTitle(raw[b]))
                  => \A k \in 1..Len(df) : df[k]["pos"] # b
        /\ \A a, b \in 1..Len(df) : a < b => df[a]["pos"] < df[b]["pos"]
        /\ \A k \in 1..Len(df) :
              /\ df[k]["url"] = raw[df[k]["pos"]]["url"]
              /\ df[k]["title"] = BackfilledTitle(raw[df[k]["pos"]])

\* A backfilled title equals the scraped title of a later row: the first row
\* alone is returned.
C4_Witness ==
    /\ status = "done"
    /\ Len(raw) = 2
    /\ raw[1]["title"] = NaN /\ raw[1]["url"] = U_XYZ
    /\ raw[2]["title"] = X_Y_Z /\ raw[2]["url"] = U_OTHER
    /\ Len(df) = 1 /\ df[1]["pos"] = 1 /\ df[1]["title"] = X_Y_Z

Present(cell) == cell # NaN /\ cell # <<>>
Counted(cell) == cell # NaN /\ cell[2] >= 0

\* C5: every row of the returned dataset has title, body and host present and
\* non-empty and both token counts present and not negative; a row whose url
\* gives an empty host is not in it.
C5_RowsComplete ==
    status = "done" =>
        \A k \in 1..Len(df) :
            /\ Present(df[k]["title"]) /\ Present(df[k]["body"]) /\ Present(df[k]["host"])
            /\ Counted(df[k]["n_tokens_title"]) /\ Counted(df[k]["n_tokens_body"])

\* C6: in the returned dataset each uid is the digest of the row's url alone,
\* and the uids are pairwise distinct.
C6_UidPrimaryKey ==
    status = "done" =>
        /\ \A k \in 1..Len(df) : df[k]["uid"] = md5_hexdigest(raw[df[k]["pos"]]["url"])
        /\ \A a, b \in 1..Len(df) : a # b => df[a]["uid"] # df[b]["uid"]

\* C8: with url, title and body columns in the file, the pipeline does not
\* fail: it runs its stages to completion whatever the rows hold.
C8_NoRowFailsTheRun ==
    (Cleaning /\ Missing = {}) => status # "failed"

\* The stage of main that first reads a column.
FirstReader(c) == CASE c = "url" -> 2 [] c = "title" -> 3 [] c = "body" -> 5

C10_BackfillTitles ==
    /\ [][(stage = 2 /\ stage' = 3) =>
            /\ Len(df') = Len(raw) /\ Len(df) = Len(raw)
            /\ cols' = cols /\ "n_tokens_title" \notin cols'
            /\ \A k \in 1..Len(df) :
                  /\ (df[k]["title"] = NaN /\ FinalSegment(df[k]["url"]) # <<>>)
                        => df'[k]["title"] = HyphensToSpaces(FinalSegment(df[k]["url"]))
                  /\ df[k]["title"] # NaN => df'[k]["title"] = df[k]["title"]
                  /\ DOMAIN df'[k] = DOMAIN df[k]
                  /\ \A c \in DOMAIN df[k] \ {"title"} : df'[k][c] = df[k][c]]_vars
    /\ [](status = "done" =>
            \A k \in 1..Len(df) :
                raw[df[k]["pos"]]["title"] = NaN
                    => df[k]["n_tokens_title"]
                          = Int(token_size(HyphensToSpaces(FinalSegment(df[k]["url"])))))

\* The backfill has given the row of url .../x-y-z the title 'x y z'.
C10_Witness ==
    /\ status = "running" /\ stage = 3
    /\ \E k \in 1..Len(raw) :
          /\ raw[k]["title"] = NaN /\ raw[k]["url"] = U_XYZ
          /\ df[k]["title"] = X_Y_Z

=============================================================================
